---- MODULE Spec2Model ----
(***************************************************************************)
(* A model of three pieces of United-Perception:                           *)
(*   - up/utils/model/initializer.py : the registered weight initializers, *)
(*     initialize and initialize_from_cfg (specification SpecInit);        *)
(*   - eod/tasks/seg/models/decoder/sfnet.py : the tensor shapes flowing   *)
(*     through AlignedModule, PSPModule and AlignHead (SpecAlign, SpecPSP, *)
(*     SpecHead);                                                          *)
(*   - up/commands/to_adela.py : the steps of main (SpecAdela).            *)
(* Tensors are modelled by their shapes, parameters by a tag naming the    *)
(* operation that last wrote them.                                         *)
(***************************************************************************)
EXTENDS Integers, Sequences, FiniteSets, TLC

VARIABLES
    modules,    \* initializer: the model's modules, in model.modules() order
    pre,        \* initializer: the modules as they were before the last call
    call,       \* initializer: the last call and how it ended
    ncalls,     \* initializer: calls made so far
    am,         \* AlignedModule: constructor arguments and forward's locals
    psp,        \* PSPModule: constructor arguments and forward's locals
    head,       \* AlignHead: constructor arguments and forward's locals
    adela       \* to_adela: arguments, file system and main's progress

vars == <<modules, pre, call, ncalls, am, psp, head, adela>>

None == "None"
Idle == [pc |-> "idle"]

\* ------------------------------------------------------------------------
\* Bounds of the model
\* ------------------------------------------------------------------------
MaxModules == 2
MaxCalls == 2
MaxBatch == 2       \* batch sizes 1..MaxBatch
MaxDim == 3         \* heights and widths 1..MaxDim
MaxKernel == 5      \* kernel sizes 1..MaxKernel
MaxStages == 2      \* PSPModule on its own: up to MaxStages pooling sizes
MaxLevels == 3      \* pyramids of 1..MaxLevels levels

\* ------------------------------------------------------------------------
\* up/utils/model/initializer.py
\* ------------------------------------------------------------------------

\* Parameter contents.  "prior" is whatever the parameter held before; "c0"
\* and "c1" are tensors filled with 0 and 1.
Const(val) == IF val = 0 THEN "c0" ELSE "c1"

ConvLike == {"Conv2d", "Linear", "ConvTranspose2d"}
FocalLike == {"Conv2d", "Linear"}

\* The layers a model is built from: convolution-like layers with or without
\* a bias, BatchNorm2d with or without affine parameters.  (A layer of any
\* other type is skipped by every loop, as BatchNorm2d is by the initializers
\* and a convolution by the BatchNorm2d reset.)
ModuleConfigs ==
    [kind : ConvLike, weight : {"prior"}, bias : {"prior", None}]
    \cup [kind : {"BatchNorm2d"}, weight : {"prior"}, bias : {"prior"}]
    \cup [kind : {"BatchNorm2d"}, weight : {None}, bias : {None}]

Models == UNION {[1..n -> ModuleConfigs] : n \in 1..MaxModules}

\* A for-loop over module.modules() whose body either rewrites the module or
\* raises; steps[i] is what the body does to mods[i].  The modules before the
\* first raising one are rewritten, the raising one is left as its body left
\* it, the rest are untouched.
ForEachModule(steps, mods) ==
    LET bad == {i \in 1..Len(mods) : steps[i].err # "ok"}
        stop == IF bad = {} THEN Len(mods) + 1
                ELSE CHOOSE i \in bad : \A j \in bad : i <= j
    IN [mods |-> [i \in 1..Len(mods) |->
                    IF i <= stop THEN steps[i].m ELSE mods[i]],
        outcome |-> IF bad = {} THEN "ok" ELSE steps[stop].err]

ConstantStep(m, val) ==
    IF m.kind \in ConvLike
    THEN IF m.bias = None
         THEN [m |-> [m EXCEPT !.weight = Const(val)], err |-> "AttributeError"]
         ELSE [m |-> [m EXCEPT !.weight = Const(val), !.bias = Const(val)],
               err |-> "ok"]
    ELSE [m |-> m, err |-> "ok"]

init_weights_constant(mods, val) ==
    ForEachModule([i \in 1..Len(mods) |-> ConstantStep(mods[i], val)], mods)

\* normal, xavier and msra differ in the distribution only.
GuardedStep(m, tag) ==
    IF m.kind \in ConvLike
    THEN [m |-> [m EXCEPT !.weight = tag,
                          !.bias = IF m.bias # None THEN "c0" ELSE None],
          err |-> "ok"]
    ELSE [m |-> m, err |-> "ok"]

init_weights_normal(mods) ==
    ForEachModule([i \in 1..Len(mods) |-> GuardedStep(mods[i], "normal")], mods)

init_weights_xavier(mods) ==
    ForEachModule([i \in 1..Len(mods) |-> GuardedStep(mods[i], "xavier")], mods)

init_weights_msra(mods) ==
    ForEachModule([i \in 1..Len(mods) |-> GuardedStep(mods[i], "msra")], mods)

\* The numeric arguments are taken to be valid: init_prior in (0, 1) and
\* num_classes >= 2, so that the logarithms and the range() are defined.
SigmoidStep(m) ==
    IF m.kind \in FocalLike
    THEN IF m.bias = None THEN [m |-> m, err |-> "AttributeError"]
         ELSE [m |-> [m EXCEPT !.bias = "focal_sigmoid"], err |-> "ok"]
    ELSE [m |-> m, err |-> "ok"]

SoftmaxStep(m) ==
    IF m.kind \in FocalLike
    THEN IF m.bias = None THEN [m |-> m, err |-> "AttributeError"]
         ELSE [m |-> [m EXCEPT !.bias = "focal_softmax"], err |-> "ok"]
    ELSE [m |-> m, err |-> "ok"]

\* init_bias_focal without its final else: an unknown loss type is silently
\* treated as softmax.
init_bias_focal_no_else(mods, cls_loss_type) ==
    IF cls_loss_type = "sigmoid"
    THEN ForEachModule([i \in 1..Len(mods) |-> SigmoidStep(mods[i])], mods)
    ELSE ForEachModule([i \in 1..Len(mods) |-> SoftmaxStep(mods[i])], mods)

init_bias_focal(mods, cls_loss_type) ==
    IF cls_loss_type = "sigmoid"
    THEN ForEachModule([i \in 1..Len(mods) |-> SigmoidStep(mods[i])], mods)
    ELSE IF cls_loss_type = "softmax"
    THEN ForEachModule([i \in 1..Len(mods) |-> SoftmaxStep(mods[i])], mods)
    ELSE [mods |-> mods, outcome |-> "NotImplementedError"]

\* The names the decorators register.
Registered == {"constant", "normal", "xavier", "msra", "focal"}

\* INITIALIZER_REGISTRY.get followed by the call of what it returned: a name
\* that is not registered yields nothing callable.
RegistryGet(method) ==
    IF method \in Registered THEN method ELSE "NoSuchInitializer"

\* Keyword arguments of a call; each initializer reads its own: val for
\* constant (0 when not given), cls_loss_type for focal.
Kwargs == [val : {0, 1}, cls_loss_type : {None, "sigmoid", "softmax", "l1"}]

KwargsFor(method) ==
    {kw \in Kwargs :
        /\ method # "constant" => kw.val = 0
        /\ (kw.cls_loss_type # None) <=> (method = "focal")}

CallRegistered(name, mods, kw) ==
    CASE name = "constant" -> init_weights_constant(mods, kw.val)
      [] name = "normal" -> init_weights_normal(mods)
      [] name = "xavier" -> init_weights_xavier(mods)
      [] name = "msra" -> init_weights_msra(mods)
      [] name = "focal" -> init_bias_focal(mods, kw.cls_loss_type)

\* The BatchNorm2d reset with the bias left as it was.
BNReset_weight_only(mods) ==
    [i \in 1..Len(mods) |->
        IF mods[i].kind = "BatchNorm2d"
        THEN [mods[i] EXCEPT
                !.weight = IF mods[i].weight # None THEN "c1" ELSE None]
        ELSE mods[i]]

BNReset(mods) ==
    [i \in 1..Len(mods) |->
        IF mods[i].kind = "BatchNorm2d"
        THEN [mods[i] EXCEPT
                !.weight = IF mods[i].weight # None THEN "c1" ELSE None,
                !.bias = IF mods[i].bias # None THEN "c0" ELSE None]
        ELSE mods[i]]

\* initialize falling back to 'normal' for a name that is not registered.
initialize_with_fallback(mods, method, kw) ==
    LET reset == BNReset(mods)
        inst == RegistryGet(method)
        use == IF inst = "NoSuchInitializer" THEN "normal" ELSE inst
        r == CallRegistered(use, reset, kw)
    IN [mods |-> r.mods,
        outcome |-> IF inst = "NoSuchInitializer" THEN "RegistryError"
                    ELSE r.outcome,
        ran |-> <<use>>]

\* initialize(model, method, **kwargs): ran lists the initializers invoked.
initialize(mods, method, kw) ==
    LET reset == BNReset(mods)
        inst == RegistryGet(method)
    IN IF inst = "NoSuchInitializer"
       THEN [mods |-> reset, outcome |-> "RegistryError", ran |-> <<>>]
       ELSE LET r == CallRegistered(inst, reset, kw)
            IN [mods |-> r.mods, outcome |-> r.outcome, ran |-> <<inst>>]

\* cfg is None, a dict without 'method', or a dict with 'method'.
Cfgs == {[isNone |-> TRUE, hasMethod |-> FALSE, method |-> None]}
        \cup {[isNone |-> FALSE, hasMethod |-> FALSE, method |-> None]}
        \cup [isNone : {FALSE}, hasMethod : {TRUE},
              method : Registered \cup {"unknown"}]

initialize_from_cfg(mods, cfg, kw) ==
    IF cfg.isNone THEN initialize(mods, "normal", kw)
    ELSE IF ~cfg.hasMethod
         THEN [mods |-> mods, outcome |-> "KeyError", ran |-> <<>>]
         ELSE initialize(mods, cfg.method, kw)

InitInitializer ==
    /\ modules \in Models
    /\ pre = modules
    /\ call = [fn |-> "none", method |-> None,
               kw |-> [val |-> 0, cls_loss_type |-> None],
               outcome |-> "none", ran |-> <<>>]
    /\ ncalls = 0
    /\ am = Idle /\ psp = Idle /\ head = Idle /\ adela = Idle

Others1 == UNCHANGED <<am, psp, head, adela>>

Record(fn, method, kw, r) ==
    /\ pre' = modules
    /\ modules' = r.mods
    /\ call' = [fn |-> fn, method |-> method, kw |-> kw,
                outcome |-> r.outcome, ran |-> r.ran]
    /\ ncalls' = ncalls + 1
    /\ Others1

\* A caller invokes initialize(model, method, **kwargs).
DoInitialize ==
    \E method \in Registered \cup {"unknown"} : \E kw \in KwargsFor(method) :
        /\ ncalls < MaxCalls
        /\ Record("initialize", method, kw, initialize(modules, method, kw))

\* A caller invokes initialize_from_cfg(model, cfg).
DoInitializeFromCfg ==
    \E cfg \in Cfgs : \E kw \in KwargsFor(cfg.method) :
        /\ ncalls < MaxCalls
        /\ Record("initialize_from_cfg",
                  IF cfg.isNone THEN "normal" ELSE cfg.method,
                  kw, initialize_from_cfg(modules, cfg, kw))

\* A caller invokes a registered initializer directly.
DoRegistered ==
    \E name \in Registered : \E kw \in KwargsFor(name) :
        /\ ncalls < MaxCalls
        /\ LET r == CallRegistered(name, modules, kw)
           IN Record(name, name, kw,
                     [mods |-> r.mods, outcome |-> r.outcome, ran |-> <<name>>])

NextInit == DoInitialize \/ DoInitializeFromCfg \/ DoRegistered

SpecInit == InitInitializer /\ [][NextInit]_vars

Called == call.fn # "none"
ViaInitialize == call.fn \in {"initialize", "initialize_from_cfg"}
HasBiasedConv(mods) ==
    \E i \in 1..Len(mods) : mods[i].kind \in FocalLike /\ mods[i].bias # None
HasBiasFreeLayer(mods) ==
    \E i \in 1..Len(mods) : mods[i].kind \in ConvLike /\ mods[i].bias = None
\* What the BatchNorm2d loop of initialize leaves of a layer m.
AfterReset(m) ==
    IF m.kind = "BatchNorm2d" /\ m.weight # None
    THEN [m EXCEPT !.weight = "c1", !.bias = "c0"]
    ELSE m

\* C3: init_bias_focal called with a cls_loss_type other than 'sigmoid' or
\* 'softmax' ends in NotImplementedError and has modified no weight and no
\* bias of any module (called through initialize, nothing beyond the
\* BatchNorm2d reset that precedes it); with 'sigmoid' or 'softmax' it never
\* ends in that error.
C3_FocalNotSupported ==
    call.ran = <<"focal">> =>
        IF call.kw.cls_loss_type \in {"sigmoid", "softmax"}
        THEN call.outcome # "NotImplementedError"
        ELSE /\ call.outcome = "NotImplementedError"
             /\ call.fn = "focal" => modules = pre
             /\ \A i \in 1..Len(pre) : modules[i] = AfterReset(pre[i])
                                        \/ modules[i] = pre[i]

\* C3's case: a direct call with an unsupported loss type on a model holding
\* a Conv2d or Linear layer with a bias, which a supported type would rewrite.
C3_Witness ==
    /\ call.fn = "focal"
    /\ call.kw.cls_loss_type = "l1"
    /\ call.outcome = "NotImplementedError"
    /\ HasBiasedConv(pre)

\* C7: when initialize (or initialize_from_cfg naming the method) fails
\* because the method is not a registered initializer or because 'focal' is
\* given an unsupported loss type, the error is what the caller gets, no
\* other initializer was run in its place, and the only parameters that
\* differ from before the call are affine BatchNorm2d weights (now 1) and
\* biases (now 0).
C7_FailureLeavesLayersUntouched ==
    (ViaInitialize /\ call.outcome \in {"RegistryError", "NotImplementedError"})
    => /\ call.ran \in {<<>>, <<call.method>>}
       /\ call.outcome = "RegistryError" => call.ran = <<>>
       /\ Len(modules) = Len(pre)
       /\ \A i \in 1..Len(pre) :
            IF pre[i].kind = "BatchNorm2d"
            THEN /\ modules[i].kind = "BatchNorm2d"
                 /\ modules[i].weight = IF pre[i].weight = None THEN None ELSE "c1"
                 /\ modules[i].bias = IF pre[i].bias = None THEN None ELSE "c0"
            ELSE modules[i] = pre[i]

\* C7's case: a failed initialize on a model with a biased convolution and an
\* affine BatchNorm2d, the latter reset although the call failed.
C7_Witness ==
    /\ ViaInitialize
    /\ call.outcome \in {"RegistryError", "NotImplementedError"}
    /\ HasBiasedConv(pre)
    /\ modules # pre

ValidCall ==
    /\ Called
    /\ call.method \in Registered
    /\ call.method = "focal" => call.kw.cls_loss_type \in {"sigmoid", "softmax"}

\* C8: each registered initializer completes without error on a model with
\* a Conv2d, Linear or ConvTranspose2d layer that has no bias, leaving the
\* absent bias absent.
C8_BiasFreeLayersAccepted ==
    (ValidCall /\ HasBiasFreeLayer(pre))
    => /\ call.outcome = "ok"
       /\ \A i \in 1..Len(pre) : pre[i].bias = None => modules[i].bias = None

\* C10: after a successful initialize with a registered method every affine
\* BatchNorm2d layer has weight 1 and bias 0, and a registered initializer
\* called on its own changes no BatchNorm2d layer.
C10_BatchNormReset ==
    /\ (ViaInitialize /\ call.outcome = "ok" /\ call.method \in Registered)
       => \A i \in 1..Len(modules) :
            (modules[i].kind = "BatchNorm2d" /\ modules[i].weight # None)
            => modules[i].weight = "c1" /\ modules[i].bias = "c0"
    /\ call.fn \in Registered
       => \A i \in 1..Len(modules) :
            pre[i].kind = "BatchNorm2d" => modules[i] = pre[i]

\* C10's case: a successful initialize changed an affine BatchNorm2d layer
\* that a previous direct call had left at its prior contents.
C10_Witness ==
    /\ ViaInitialize /\ call.outcome = "ok" /\ ncalls = 2
    /\ \E i \in 1..Len(modules) :
         /\ pre[i].kind = "BatchNorm2d" /\ pre[i].weight = "prior"
         /\ modules[i].weight = "c1" /\ modules[i].bias = "c0"
    /\ \E i \in 1..Len(modules) : modules[i].kind \in ConvLike

\* ------------------------------------------------------------------------
\* eod/tasks/seg/models/decoder/sfnet.py : tensor shapes
\* ------------------------------------------------------------------------

\* A 4-d tensor is its size (n, c, h, w); a sampling grid is (n, h, w, last).
Shape(n, c, h, w) == [n |-> n, c |-> c, h |-> h, w |-> w]
NoShape == Shape(0, 0, 0, 0)
Grid(n, h, w, last) == [n |-> n, h |-> h, w |-> w, last |-> last]
NoGrid == Grid(0, 0, 0, 0)

\* nn.Conv2d(in_ch, out_ch, kernel_size=k, padding=pad), stride and dilation
\* 1: the size of its output, or why it raises.
Conv2dOk(x, in_ch, k, pad) ==
    x.c = in_ch /\ x.h + 2 * pad >= k /\ x.w + 2 * pad >= k
Conv2d(x, out_ch, k, pad) ==
    Shape(x.n, out_ch, x.h + 2 * pad - k + 1, x.w + 2 * pad - k + 1)

\* F.upsample / F.interpolate(x, size=(h, w)).
Upsample(x, h, w) == Shape(x.n, x.c, h, w)

\* torch.cat([a, b], 1).
CatOk(a, b) == a.n = b.n /\ a.h = b.h /\ a.w = b.w
Cat(a, b) == Shape(a.n, a.c + b.c, a.h, a.w)

\* Broadcasting of two dimensions, and of two 4-d sizes.
DimOk(a, b) == a = b \/ a = 1 \/ b = 1
Dim(a, b) == IF a = 1 THEN b ELSE a
BroadcastOk(g, f) ==
    DimOk(g.n, f.n) /\ DimOk(g.h, f.h) /\ DimOk(g.w, f.w) /\ DimOk(g.last, f.last)
Broadcast(g, f) ==
    Grid(Dim(g.n, f.n), Dim(g.h, f.h), Dim(g.w, f.w), Dim(g.last, f.last))

\* F.grid_sample(input, grid).
GridSampleOk(x, g) == x.n = g.n /\ g.last = 2
GridSample(x, g) == Shape(x.n, x.c, g.h, g.w)

\* ---- AlignedModule ----

DefaultKernel == 3
FlowPad == 1

\* The padding flow_make is built with.
FlowMakePadding(kernel_size) == FlowPad

AMStart(k, inplane, outplane, low, high) ==
    [pc |-> "start", kernel_size |-> k, inplane |-> inplane,
     outplane |-> outplane, flow_in |-> 2 * outplane,
     low |-> low, high |-> high,
     size |-> <<0, 0>>, low_r |-> NoShape, h_r |-> NoShape, h_up |-> NoShape,
     flow |-> NoShape, warp_in |-> NoShape, norm |-> <<0, 0>>,
     grid |-> NoGrid, out |-> NoShape, err |-> None]

\* A constructed module and the pair x = [low_feature, h_feature] given to
\* forward: both of inplane channels and of one batch size.
InitAligned ==
    /\ \E k \in 1..MaxKernel, inplane \in {2, 4}, outplane \in {1, 2},
          n \in 1..MaxBatch, h \in 1..MaxDim, w \in 1..MaxDim,
          hh \in 1..MaxDim, hw \in 1..MaxDim :
          am = AMStart(k, inplane, outplane,
                       Shape(n, inplane, h, w), Shape(n, inplane, hh, hw))
    /\ modules = <<>> /\ pre = <<>> /\ call = Idle /\ ncalls = 0
    /\ psp = Idle /\ head = Idle /\ adela = Idle

Others2 == UNCHANGED <<modules, pre, call, ncalls, psp, head, adela>>

\* forward, lines 23-28: size of the fine feature, the two 1x1 reductions.
AM_Reduce ==
    /\ am.pc = "start"
    /\ am' = [am EXCEPT !.pc = "reduced",
                        !.size = <<am.low.h, am.low.w>>,
                        !.low_r = Conv2d(am.low, am.outplane, 1, 0),
                        !.h_r = Conv2d(am.high, am.outplane, 1, 0)]
    /\ Others2

\* forward, line 29: the reduced coarse feature upsampled to size.
AM_Upsample ==
    /\ am.pc = "reduced"
    /\ am' = [am EXCEPT !.pc = "upsampled",
                        !.h_up = Upsample(am.h_r, am.size[1], am.size[2])]
    /\ Others2

\* forward, lines 30-31: flow_make on the concatenation, then flow_warp is
\* called with the original coarse feature, the flow and size.
AM_FlowMake ==
    /\ am.pc = "upsampled"
    /\ LET x == Cat(am.h_up, am.low_r)
           pad == FlowMakePadding(am.kernel_size)
       IN IF CatOk(am.h_up, am.low_r) /\ Conv2dOk(x, am.flow_in, am.kernel_size, pad)
          THEN am' = [am EXCEPT !.pc = "flow_warp",
                                !.flow = Conv2d(x, 2, am.kernel_size, pad),
                                !.warp_in = am.high]
          ELSE am' = [am EXCEPT !.pc = "error", !.err = "flow_make"]
    /\ Others2

\* norm of flow_warp: the divisors of the flow's channels 0 and 1.
WarpNorm(out_h, out_w) == <<out_w, out_h>>

\* flow_warp, lines 36-44: the base grid of size (n, out_h, out_w, 2), first
\* component along the width, offset by the permuted flow over norm.
AM_Grid ==
    /\ am.pc = "flow_warp"
    /\ LET out_h == am.size[1]
           out_w == am.size[2]
           base == Grid(am.warp_in.n, out_h, out_w, 2)
           normsize == Grid(1, 1, 1, 2)
           flowp == Grid(am.flow.n, am.flow.h, am.flow.w, am.flow.c)
       IN IF BroadcastOk(flowp, normsize)
             /\ BroadcastOk(base, Broadcast(flowp, normsize))
          THEN am' = [am EXCEPT !.pc = "grid",
                                !.norm = WarpNorm(out_h, out_w),
                                !.grid = Broadcast(base, Broadcast(flowp, normsize))]
          ELSE am' = [am EXCEPT !.pc = "error", !.err = "grid + flow",
                                !.norm = WarpNorm(out_h, out_w)]
    /\ Others2

\* flow_warp, lines 46-47, and forward's return.
AM_GridSample ==
    /\ am.pc = "grid"
    /\ IF GridSampleOk(am.warp_in, am.grid)
       THEN am' = [am EXCEPT !.pc = "done", !.out = GridSample(am.warp_in, am.grid)]
       ELSE am' = [am EXCEPT !.pc = "error", !.err = "grid_sample"]
    /\ Others2

NextAligned == AM_Reduce \/ AM_Upsample \/ AM_FlowMake \/ AM_Grid \/ AM_GridSample

SpecAlign == InitAligned /\ [][NextAligned]_vars

\* C2: when flow_warp is called the flow has the spatial size of the fine
\* (low_feature) input, for every input shape and every kernel_size.
C2_FlowMatchesTarget ==
    am.pc = "flow_warp" => am.flow.h = am.low.h /\ am.flow.w = am.low.w

\* C5: forward computes the flow from the concatenation (2*outplane
\* channels in, 2 out) of the reduced coarse feature upsampled to (h, w) and
\* the reduced fine feature, and returns the warp of the un-reduced coarse
\* feature: size (n, C, h, w), sampled on a grid of size (n, h, w, 2) whose
\* x offset is flow channel 0 over w and whose y offset is channel 1 over h.
C5_ForwardWarpsCoarse ==
    am.pc \in {"done", "error"}
    => /\ am.pc = "done"
       /\ am.h_up = Shape(am.low.n, am.outplane, am.low.h, am.low.w)
       /\ am.low_r = Shape(am.low.n, am.outplane, am.low.h, am.low.w)
       /\ am.flow.c = 2
       /\ am.warp_in = am.high
       /\ am.grid = Grid(am.low.n, am.low.h, am.low.w, 2)
       /\ am.norm = <<am.low.w, am.low.h>>
       /\ am.out = Shape(am.low.n, am.high.c, am.low.h, am.low.w)

\* ---- PSPModule ----

PoolSizes == {1, 2, 3, 6}
DefaultSizes == <<1, 2, 3, 6>>
BottleneckKernel == 1
BottleneckPad == 1

\* nn.AdaptiveAvgPool2d(output_size=(size, size)).
AdaptiveAvgPool(x, size) == Shape(x.n, x.c, size, size)

\* _make_stage: pooling, 1x1 convolution, norm layer (which keeps the size).
Stage(x, out_planes, size) == Conv2d(AdaptiveAvgPool(x, size), out_planes, 1, 0)

\* forward, lines 76-77: every stage upsampled to (h, w), then feats itself.
Priors(feats, out_planes, sizes) ==
    [i \in 1..Len(sizes) |->
        Upsample(Stage(feats, out_planes, sizes[i]), feats.h, feats.w)]
    \o <<feats>>

RECURSIVE SumChannels(_)
SumChannels(ts) == IF ts = <<>> THEN 0 ELSE Head(ts).c + SumChannels(Tail(ts))

\* torch.cat(ts, 1) of a non-empty list.
CatAllOk(ts) == \A i \in 1..Len(ts) : CatOk(ts[1], ts[i])
CatAll(ts) == Shape(ts[1].n, SumChannels(ts), ts[1].h, ts[1].w)

\* The padding the bottleneck convolution is built with.
BottleneckPadding(kernel_size) == BottleneckPad

\* self.bottleneck: the convolution of line 62; norm layer, ReLU and
\* Dropout2d keep the size.
BottleneckIn(inplanes, out_planes, sizes) == inplanes + Len(sizes) * out_planes
Bottleneck(x, out_planes) ==
    Conv2d(x, out_planes, BottleneckKernel, BottleneckPadding(BottleneckKernel))

\* PSPModule.forward as a whole (the input has inplanes channels).
PSPForward(feats, out_planes, sizes) ==
    Bottleneck(CatAll(Priors(feats, out_planes, sizes)), out_planes)

SizeLists == UNION {[1..k -> PoolSizes] : k \in 0..MaxStages} \cup {DefaultSizes}

InitPSP ==
    /\ \E inplanes \in {2, 3}, out_planes \in {1, 2}, sizes \in SizeLists,
          n \in 1..MaxBatch, h \in 1..MaxDim, w \in 1..MaxDim :
          psp = [pc |-> "start", inplanes |-> inplanes, out_planes |-> out_planes,
                 sizes |-> sizes, feats |-> Shape(n, inplanes, h, w),
                 priors |-> <<>>, cat |-> NoShape, bottle |-> NoShape,
                 err |-> None]
    /\ modules = <<>> /\ pre = <<>> /\ call = Idle /\ ncalls = 0
    /\ am = Idle /\ head = Idle /\ adela = Idle

Others3 == UNCHANGED <<modules, pre, call, ncalls, am, head, adela>>

\* forward, lines 75-77.
PSP_Priors ==
    /\ psp.pc = "start"
    /\ psp' = [psp EXCEPT !.pc = "priors",
                          !.priors = Priors(psp.feats, psp.out_planes, psp.sizes)]
    /\ Others3

\* forward, lines 78-79.
PSP_Bottleneck ==
    /\ psp.pc = "priors"
    /\ LET x == CatAll(psp.priors)
       IN IF /\ CatAllOk(psp.priors)
             /\ Conv2dOk(x, BottleneckIn(psp.inplanes, psp.out_planes, psp.sizes),
                         BottleneckKernel, BottleneckPadding(BottleneckKernel))
          THEN psp' = [psp EXCEPT !.pc = "done", !.cat = x,
                                  !.bottle = Bottleneck(x, psp.out_planes)]
          ELSE psp' = [psp EXCEPT !.pc = "error", !.cat = x, !.err = "bottleneck"]
    /\ Others3

NextPSP == PSP_Priors \/ PSP_Bottleneck

SpecPSP == InitPSP /\ [][NextPSP]_vars

\* C9: PSPModule.forward upsamples each of the len(sizes) pooled branches
\* back to (h, w), concatenates them with the input into
\* inplanes + len(sizes)*out_planes channels, and returns a tensor of
\* out_planes channels and of the input's spatial size (h, w).
C9_PSPKeepsSize ==
    psp.pc \in {"done", "error"}
    => /\ psp.pc = "done"
       /\ Len(psp.priors) = Len(psp.sizes) + 1
       /\ \A i \in 1..Len(psp.sizes) :
            psp.priors[i] = Shape(psp.feats.n, psp.out_planes, psp.feats.h, psp.feats.w)
       /\ psp.cat.c = psp.inplanes + Len(psp.sizes) * psp.out_planes
       /\ psp.bottle = Shape(psp.feats.n, psp.out_planes, psp.feats.h, psp.feats.w)

\* ---- AlignHead ----

\* AlignedModule.forward as a whole, for a module built with outplane and
\* kernel_size: whether it returns, and the size of what it returns.
AlignedForward(low, high, outplane, kernel_size) ==
    LET low_r == Conv2d(low, outplane, 1, 0)
        h_up == Upsample(Conv2d(high, outplane, 1, 0), low.h, low.w)
        x == Cat(h_up, low_r)
        pad == FlowMakePadding(kernel_size)
        flow == Conv2d(x, 2, kernel_size, pad)
        base == Grid(high.n, low.h, low.w, 2)
        flowp == Grid(flow.n, flow.h, flow.w, flow.c)
        grid == Broadcast(base, flowp)
    IN [ok |-> /\ CatOk(h_up, low_r)
               /\ Conv2dOk(x, 2 * outplane, kernel_size, pad)
               /\ BroadcastOk(base, flowp)
               /\ GridSampleOk(high, grid),
        out |-> GridSample(high, grid)]

\* The loop without reversed(): range(len(conv_out) - 1), finest level first.
LoopOrder_ascending(L) == [j \in 1..(L - 1) |-> j - 1]

\* The levels the top-down loop visits, in order, for a pyramid of L levels
\* (0-based, as in the code): reversed(range(len(conv_out) - 1)).
LoopOrder(L) == [j \in 1..(L - 1) |-> L - 1 - j]

\* list.reverse().
Reverse(xs) == [j \in 1..Len(xs) |-> xs[Len(xs) + 1 - j]]

\* fpn_inplanes as the decoders give it: doubling from level to level.
RECURSIVE Pow2(_)
Pow2(k) == IF k = 0 THEN 1 ELSE 2 * Pow2(k - 1)
FpnInplanes(base, L) == [i \in 1..L |-> base * Pow2(i - 1)]

\* Heights (or widths) of a pyramid: never growing from a level to the next.
Pyramids(L) ==
    {p \in [1..L -> 1..MaxDim] : \A i \in 1..(L - 1) : p[i] >= p[i + 1]}

\* A constructed head and the list conv_out given to forward: level i of
\* fpn_inplanes[i] channels, the last one of inplane channels.
InitHead ==
    /\ \E L \in 1..MaxLevels, base \in {1, 2}, fpn_dim \in {2, 3},
          num_class \in {1, 2}, n \in 1..MaxBatch :
        \E hs \in Pyramids(L), ws \in Pyramids(L) :
          LET planes == FpnInplanes(base, L)
          IN head = [pc |-> "start", L |-> L, fpn_inplanes |-> planes,
                     inplane |-> planes[L], fpn_dim |-> fpn_dim,
                     num_class |-> num_class,
                     conv_last_in |-> Len(planes) * fpn_dim,
                     conv_out |-> [i \in 1..L |-> Shape(n, planes[i], hs[i], ws[i])],
                     psp_out |-> NoShape, f |-> NoShape, f_from |-> None,
                     order |-> <<>>, pos |-> 0,
                     visited |-> <<>>, aligned |-> <<>>,
                     fpn_feature_list |-> <<>>, reversed |-> FALSE,
                     fusion_list |-> <<>>, fusion_out |-> NoShape,
                     x |-> NoShape, err |-> None]
    /\ modules = <<>> /\ pre = <<>> /\ call = Idle /\ ncalls = 0
    /\ am = Idle /\ psp = Idle /\ adela = Idle

Others4 == UNCHANGED <<modules, pre, call, ncalls, am, psp, adela>>

\* An entry of fpn_feature_list: the level it belongs to, the module that
\* produced it and its size.
Feature(level, from, t) == [level |-> level, from |-> from, t |-> t]

\* forward, lines 146-150: pyramid pooling of the coarsest level, the start
\* of the list, and the iterator of the loop.
H_PPM ==
    /\ head.pc = "start"
    /\ LET top == head.conv_out[head.L]
       IN IF top.c = head.inplane
          THEN LET psp_out == PSPForward(top, head.fpn_dim, DefaultSizes)
               IN head' = [head EXCEPT
                     !.pc = "loop", !.psp_out = psp_out,
                     !.f = psp_out, !.f_from = Feature(head.L - 1, "ppm", psp_out),
                     !.fpn_feature_list = <<Feature(head.L - 1, "ppm", psp_out)>>,
                     !.order = LoopOrder(Len(head.conv_out)), !.pos = 1]
          ELSE head' = [head EXCEPT !.pc = "error", !.err = "ppm"]
    /\ Others4

\* forward, lines 151-155: one pass of the top-down loop, at level i.
H_Level ==
    /\ head.pc = "loop"
    /\ head.pos <= Len(head.order)
    /\ LET i == head.order[head.pos]
           conv_x == Conv2d(head.conv_out[i + 1], head.fpn_dim, 1, 0)
           a == AlignedForward(conv_x, head.f, head.fpn_dim \div 2, DefaultKernel)
           f == a.out
       IN IF /\ Conv2dOk(head.conv_out[i + 1], head.fpn_inplanes[i + 1], 1, 0)
             /\ head.f.c = head.fpn_dim
             /\ a.ok
             /\ conv_x = f
          THEN head' = [head EXCEPT
                 !.pos = head.pos + 1,
                 !.visited = Append(head.visited, i),
                 !.aligned = Append(head.aligned,
                                    [fine |-> i, coarse |-> head.f_from]),
                 !.f = f, !.f_from = Feature(i, "fused", f),
                 !.fpn_feature_list =
                     Append(head.fpn_feature_list,
                            Feature(i, "fpn_out", Conv2d(f, head.fpn_dim, 1, 0)))]
          ELSE head' = [head EXCEPT !.pc = "error", !.err = "level"]
    /\ Others4

\* forward, line 157, once the loop is exhausted.
H_Reverse ==
    /\ head.pc = "loop"
    /\ head.pos > Len(head.order)
    /\ head' = [head EXCEPT !.pc = "fusion", !.reversed = TRUE,
                            !.fpn_feature_list = Reverse(head.fpn_feature_list)]
    /\ Others4

\* forward, lines 158-165: the first entry as it is, the others resized to it.
H_Fuse ==
    /\ head.pc = "fusion"
    /\ LET l == head.fpn_feature_list
           output_size == l[1].t
       IN head' = [head EXCEPT !.pc = "fused",
                     !.fusion_list = [k \in 1..Len(l) |->
                        IF k = 1 THEN l[1].t
                        ELSE Upsample(l[k].t, output_size.h, output_size.w)]]
    /\ Others4

\* forward, lines 167-170: concatenation and conv_last.
H_Last ==
    /\ head.pc = "fused"
    /\ LET fusion_out == CatAll(head.fusion_list)
       IN IF /\ CatAllOk(head.fusion_list)
             /\ Conv2dOk(fusion_out, head.conv_last_in, 1, 0)
          THEN head' = [head EXCEPT !.pc = "done", !.fusion_out = fusion_out,
                 !.x = Conv2d(Conv2d(fusion_out, head.fpn_dim, 1, 0),
                              head.num_class, 1, 0)]
          ELSE head' = [head EXCEPT !.pc = "error", !.fusion_out = fusion_out,
                                    !.err = "conv_last"]
    /\ Others4

NextHead == H_PPM \/ H_Level \/ H_Reverse \/ H_Fuse \/ H_Last

SpecHead == InitHead /\ [][NextHead]_vars

\* C1: the top-down loop starts from the pyramid-pooling output of the
\* coarsest level L-1 and visits the levels L-2, ..., 0 once each in
\* decreasing order, each step aligning the fused result of the level just
\* above (the pooling output at the first step) onto the current level; the
\* list is then reversed, so that at fusion entry k is the feature of level
\* k, the pooling output last.
C1_TopDownOrder ==
    /\ head.pc # "start" =>
         /\ \A j \in 1..Len(head.visited) : head.visited[j] = head.L - 1 - j
         /\ \A j \in 1..Len(head.aligned) :
              /\ head.aligned[j].fine = head.L - 1 - j
              /\ head.aligned[j].coarse.level = head.L - j
              /\ head.aligned[j].coarse.from = IF j = 1 THEN "ppm" ELSE "fused"
         /\ Len(head.aligned) = Len(head.visited)
         /\ Len(head.visited) <= head.L - 1
    /\ head.pc = "loop" =>
         /\ head.fpn_feature_list[1] = Feature(head.L - 1, "ppm", head.psp_out)
         /\ ~head.reversed
    /\ head.pc \in {"fusion", "fused", "done"} =>
         /\ head.reversed
         /\ Len(head.visited) = head.L - 1
         /\ Len(head.fpn_feature_list) = head.L
         /\ \A k \in 1..head.L : head.fpn_feature_list[k].level = k - 1
         /\ head.fpn_feature_list[head.L] = Feature(head.L - 1, "ppm", head.psp_out)
    /\ head.pc # "error"

\* C1's case: a three-level pyramid taken through the loop and the reversal.
C1_Witness ==
    /\ head.pc = "done"
    /\ head.L = 3
    /\ head.visited = <<1, 0>>
    /\ head.conv_out[1].h > head.conv_out[3].h

\* C6: the final fusion concatenates exactly L maps, one per level, each of
\* fpn_dim channels and of the finest level's spatial size; the
\* concatenation has L*fpn_dim channels, the input channel count of
\* conv_last, and the prediction has num_class channels at the finest
\* level's spatial size.
C6_FusionAtFinestSize ==
    head.pc \in {"done", "error"}
    => LET finest == head.conv_out[1]
       IN /\ head.pc = "done"
          /\ Len(head.fusion_list) = head.L
          /\ \A k \in 1..head.L :
               head.fusion_list[k] = Shape(finest.n, head.fpn_dim, finest.h, finest.w)
          /\ head.fusion_out.c = head.L * head.fpn_dim
          /\ head.conv_last_in = head.fusion_out.c
          /\ head.x = Shape(finest.n, head.num_class, finest.h, finest.w)

\* ------------------------------------------------------------------------
\* up/commands/to_adela.py
\* ------------------------------------------------------------------------

Paths == {"a.yaml", "b.yaml"}
NoCfg == [kind |-> "none", path |-> None, cfg_type |-> None, args |-> "unset"]
NoExport == [cfg |-> NoCfg, release_json |-> None, save_to |-> None,
             serialize |-> FALSE]

\* The steps of main, in the order it calls them.
MainCalls == <<"os.path.exists", "load_yaml", "send_info", "to_adela">>

\* The parsed arguments (add_subparser's defaults included) and the files
\* that exist when main is entered.
InitAdela ==
    /\ \E config \in Paths, fs \in SUBSET Paths, cfg_type \in {"up", "pod"},
          opts \in {None, "opts"}, save_to \in {None, "dir"},
          serialize \in BOOLEAN :
          adela = [pc |-> "start", config |-> config, fs |-> fs,
                   cfg_type |-> cfg_type, opts |-> opts,
                   release_json |-> "release.json", save_to |-> save_to,
                   serialize |-> serialize,
                   cfg |-> NoCfg, log |-> <<>>, exported |-> NoExport,
                   raised |-> None]
    /\ modules = <<>> /\ pre = <<>> /\ call = Idle /\ ncalls = 0
    /\ am = Idle /\ psp = Idle /\ head = Idle

Others5 == UNCHANGED <<modules, pre, call, ncalls, am, psp, head>>

Raise(a, exc) == [a EXCEPT !.pc = "failed", !.raised = exc]

\* The assert of line 57 without its condition.
ConfigExists_unchecked(path, fs) == TRUE

\* os.path.exists(args.config).
ConfigExists(path, fs) == path \in fs

\* main, line 57.
A_Exists ==
    /\ adela.pc = "start"
    /\ LET a == [adela EXCEPT !.log = Append(adela.log, "os.path.exists")]
       IN IF ConfigExists(adela.config, adela.fs)
          THEN adela' = [a EXCEPT !.pc = "checked"]
          ELSE adela' = Raise(a, "AssertionError")
    /\ Others5

\* main, line 58: load_yaml returns a mapping, returns something else
\* (an empty file), or raises.
A_LoadYaml ==
    /\ adela.pc = "checked"
    /\ LET a == [adela EXCEPT !.log = Append(adela.log, "load_yaml")]
       IN \E r \in {"dict", "other", "raise"} :
            IF r = "raise" THEN adela' = Raise(a, "load_yaml")
            ELSE adela' = [a EXCEPT !.pc = "loaded",
                             !.cfg = [kind |-> r, path |-> adela.config,
                                      cfg_type |-> adela.cfg_type,
                                      args |-> "unset"]]
    /\ Others5

\* main, lines 59-61.
A_SetArgs ==
    /\ adela.pc = "loaded"
    /\ IF adela.cfg.kind = "dict"
       THEN adela' = [adela EXCEPT !.pc = "args", !.cfg.args = adela.opts]
       ELSE adela' = Raise(adela, "TypeError")
    /\ Others5

\* main, line 62: send_info returns or raises.
A_SendInfo ==
    /\ adela.pc = "args"
    /\ LET a == [adela EXCEPT !.log = Append(adela.log, "send_info")]
       IN \E ok \in BOOLEAN :
            adela' = IF ok THEN [a EXCEPT !.pc = "sent"] ELSE Raise(a, "send_info")
    /\ Others5

\* main, line 63: the export returns or raises.
A_ToAdela ==
    /\ adela.pc = "sent"
    /\ LET a == [adela EXCEPT
                   !.log = Append(adela.log, "to_adela"),
                   !.exported = [cfg |-> adela.cfg,
                                 release_json |-> adela.release_json,
                                 save_to |-> adela.save_to,
                                 serialize |-> adela.serialize]]
       IN \E ok \in BOOLEAN :
            adela' = IF ok THEN [a EXCEPT !.pc = "done"] ELSE Raise(a, "to_adela")
    /\ Others5

NextAdela == A_Exists \/ A_LoadYaml \/ A_SetArgs \/ A_SendInfo \/ A_ToAdela

SpecAdela == InitAdela /\ [][NextAdela]_vars

IsPrefix(xs, ys) ==
    Len(xs) <= Len(ys) /\ \A i \in 1..Len(xs) : xs[i] = ys[i]
InLog(name) == \E i \in 1..Len(adela.log) : adela.log[i] = name

C4_State ==
    /\ IsPrefix(adela.log, MainCalls)
    /\ (adela.pc # "start" /\ adela.config \notin adela.fs)
       => /\ adela.pc = "failed"
          /\ adela.raised = "AssertionError"
          /\ adela.log = <<"os.path.exists">>
    /\ InLog("to_adela")
       => /\ adela.config \in adela.fs
          /\ adela.exported.cfg.kind = "dict"
          /\ adela.exported.cfg.path = adela.config
    /\ (adela.pc = "failed") <=> (adela.raised # None)
    /\ adela.pc = "done" => adela.log = MainCalls

\* C4: main fails at once when args.config does not exist, before load_yaml,
\* send_info or the export is called; the steps happen at most once each and
\* in the order existence check, load_yaml, send_info, export, the export
\* only after the config existed and was loaded; a failure in any step is
\* raised to the caller and no later step runs.
C4_MainOrder == []C4_State /\ [][adela.pc # "failed"]_vars

\* C4's case: the config is missing although another file exists, and main
\* has stopped at the check with nothing else called.
C4_Witness ==
    /\ adela.pc = "failed"
    /\ adela.config \notin adela.fs
    /\ adela.fs # {}
    /\ adela.log = <<"os.path.exists">>

====
